---- MODULE Spec2Model ----
(***************************************************************************)
(* Model of rstoolbox/bin/rename_decoys.py: get_options, new_names, main.  *)
(* Text is a sequence of one-character strings; a file is the sequence of   *)
(* bytes stored under a path.                                               *)
(***************************************************************************)
EXTENDS Integers, Sequences, FiniteSets, TLC

VARIABLES ifile, ofile, prefix, force, py3, fs, fs0, pc, err, names, data, row, log

vars == <<ifile, ofile, prefix, force, py3, fs, fs0, pc, err, names, data, row, log>>

(* ---------------------------- bounds ----------------------------------- *)
MaxRecords == 3
MaxSmallIndex == 10
MaxOver == 3

(* --------------------------- characters -------------------------------- *)
NL == "\n"
SP == " "
GzMagic == "<1f8b>"
Digits == <<"0", "1", "2", "3", "4", "5", "6", "7", "8", "9">>

None == <<>>
Some(x) == <<x>>
IsNone(o) == o = <<>>
Val(o) == o[1]

(* --------------------------- str methods ------------------------------- *)
endswith(s, suffix) ==
    /\ Len(s) >= Len(suffix)
    /\ \A k \in 1..Len(suffix) : s[Len(s) - Len(suffix) + k] = suffix[k]

OccursAt(s, sub, i) ==
    /\ i >= 1
    /\ i + Len(sub) - 1 <= Len(s)
    /\ \A k \in 1..Len(sub) : s[i + k - 1] = sub[k]

Contains(s, sub) == \E i \in 1..(Len(s) + 1) : OccursAt(s, sub, i)

RECURSIVE Interleave(_, _, _)
Interleave(s, new, i) ==
    IF i > Len(s) THEN new
    ELSE new \o <<s[i]>> \o Interleave(s, new, i + 1)

RECURSIVE ReplaceFrom(_, _, _, _)
ReplaceFrom(s, old, new, i) ==
    IF i > Len(s) THEN <<>>
    ELSE IF OccursAt(s, old, i) THEN new \o ReplaceFrom(s, old, new, i + Len(old))
    ELSE <<s[i]>> \o ReplaceFrom(s, old, new, i + 1)

\* str.replace(old, new): every non-overlapping occurrence, scanning left to right
replace(s, old, new) ==
    IF Len(old) = 0 THEN Interleave(s, new, 1) ELSE ReplaceFrom(s, old, new, 1)

(* --------------------------- str.format -------------------------------- *)
RECURSIVE DecimalText(_)
DecimalText(n) ==
    IF n < 10 THEN <<Digits[n + 1]>>
    ELSE DecimalText(n \div 10) \o <<Digits[(n % 10) + 1]>>

RECURSIVE ZeroPad(_, _)
ZeroPad(t, width) == IF Len(t) >= width THEN t ELSE ZeroPad(<<"0">> \o t, width)

PadWidth == 5

\* the smallest count whose decimal text is wider than the padding
PadLimit == 10 ^ PadWidth

Format05d(n) == ZeroPad(DecimalText(n), PadWidth)

new_names_trunc(count, pfx) == pfx \o <<"_">> \o Format05d(count % PadLimit)

new_names(count, pfx) == pfx \o <<"_">> \o Format05d(count)


\* str(prefix) as str.format renders it: None prints as the text "None"
FormatArg(o) == IF IsNone(o) THEN <<"N", "o", "n", "e">> ELSE Val(o)

(* ----------------------------- files ----------------------------------- *)
GzExt == <<".", "g", "z">>
PathA == <<"a">>
PathAgz == <<"a">> \o GzExt
PathB == <<"b">>
PathBgz == <<"b">> \o GzExt
Paths == {PathA, PathAgz, PathB, PathBgz}

NoFile == [exists |-> FALSE, bytes |-> <<>>]
File(b) == [exists |-> TRUE, bytes |-> b]

\* os.path.isfile
isfile(fsys, p) == fsys[p].exists

\* a gzip stream: the magic header followed by the deflated payload
Gzip(text) == <<GzMagic>> \o text
IsGzip(b) == Len(b) > 0 /\ b[1] = GzMagic
Gunzip(b) == Tail(b)

Encode(text, path) == IF endswith(path, GzExt) THEN Gzip(text) ELSE text

(* ------------------- rstoolbox.io.parse_rosetta_file -------------------- *)
RECURSIVE SplitFrom(_, _, _)
SplitFrom(s, i, cur) ==
    IF i > Len(s) THEN (IF cur = <<>> THEN <<>> ELSE <<cur>>)
    ELSE IF s[i] = NL THEN <<cur>> \o SplitFrom(s, i + 1, <<>>)
    ELSE SplitFrom(s, i + 1, Append(cur, s[i]))

SplitLines(s) == SplitFrom(s, 1, <<>>)

RECURSIVE LastFieldFrom(_, _)
LastFieldFrom(line, i) ==
    IF i = 0 \/ line[i] = SP THEN SubSeq(line, i + 1, Len(line))
    ELSE LastFieldFrom(line, i - 1)

LastField(line) == LastFieldFrom(line, Len(line))

IsScoreLine(line) == Len(line) >= 2 /\ line[1] = "S" /\ line[2] = SP

\* the description column: the last field of every score line, in file order
Descriptions(text) ==
    LET lines == SelectSeq(SplitLines(text), IsScoreLine)
    IN  [k \in 1..Len(lines) |-> LastField(lines[k])]

Readable(fsys, path) ==
    /\ isfile(fsys, path)
    /\ endswith(path, GzExt) => IsGzip(fsys[path].bytes)

FileText(fsys, path) ==
    IF endswith(path, GzExt) THEN Gunzip(fsys[path].bytes) ELSE fsys[path].bytes

\* the parsed table: one row per record, default index 0..n-1
parse_rosetta_file(fsys, path) ==
    LET d == Descriptions(FileText(fsys, path))
    IN  [k \in 1..Len(d) |->
            [index |-> k - 1, description |-> d[k], count |-> 0, new |-> <<>>]]

(* --------------------------- main, 55-56 ------------------------------- *)
AssignCount_zero_based(frame) ==
    [k \in 1..Len(frame) |-> [frame[k] EXCEPT !.count = frame[k].index]]

\* names["count"] = names.index + 1
AssignCount(frame) ==
    [k \in 1..Len(frame) |-> [frame[k] EXCEPT !.count = frame[k].index + 1]]

\* names["new"] = names.apply(lambda row: new_names(row["count"], prefix), axis=1)
ApplyNewNames(frame, pfx) ==
    [k \in 1..Len(frame) |->
        [frame[k] EXCEPT !.new = new_names(frame[k].count, FormatArg(pfx))]]

(* ------------------------------ inputs --------------------------------- *)
IdA == <<"a">>
IdAB == <<"a", "b">>
IdB == <<"b">>
IdGen == <<"d", "_", "0", "0", "0", "0", "1">>
Ids == {IdA, IdAB, IdB, IdGen}

Prefixes == {None, Some(<<>>), Some(<<"d">>), Some(<<"x">>)}

RecordLists ==
    UNION {{r \in [1..n -> Ids] : \A i, j \in 1..n : i # j => r[i] # r[j]} :
              n \in 0..MaxRecords}

\* one record of a silent file: its score line and a structure line carrying its tag
RecordText(id) == <<"S", SP>> \o id \o <<NL>> \o <<"r", SP>> \o id \o <<NL>>

RECURSIVE SilentText(_, _)
SilentText(ids, k) ==
    IF k > Len(ids) THEN <<>> ELSE RecordText(ids[k]) \o SilentText(ids, k + 1)

OldBytes == <<"o", "l", "d", NL>>

OptPaths == {None} \cup {Some(p) : p \in Paths}

Init ==
    /\ ifile \in OptPaths
    /\ ofile \in OptPaths
    /\ prefix \in Prefixes
    /\ force \in BOOLEAN
    /\ py3 \in BOOLEAN
    /\ \E ids \in RecordLists, srcExists \in BOOLEAN, dstExists \in BOOLEAN :
          fs = [p \in Paths |->
                  IF ~IsNone(ifile) /\ p = Val(ifile) /\ srcExists
                  THEN File(Encode(SilentText(ids, 1), p))
                  ELSE IF ~IsNone(ofile) /\ p = Val(ofile) /\ dstExists
                  THEN File(OldBytes)
                  ELSE NoFile]
    /\ fs0 = fs
    /\ pc = "get_options"
    /\ err = "none"
    /\ names = <<>>
    /\ data = <<>>
    /\ row = 0
    /\ log = <<>>

Raise(e) == pc' = "raised" /\ err' = e

Access(op, path) == [op |-> op, path |-> path]

(* --------------------------- get_options ------------------------------- *)
MissingArgument_prefix_unchecked(i, o, p) == IsNone(i) \/ IsNone(o)

\* lines 37-42
MissingArgument(i, o, p) == IsNone(i) \/ IsNone(o) \/ IsNone(p)

RefuseOverwrite_unchecked(fsys, o, f) == FALSE

\* line 43
RefuseOverwrite(fsys, o, f) == isfile(fsys, Val(o)) /\ ~f

get_options ==
    /\ pc = "get_options"
    /\ IF MissingArgument(ifile, ofile, prefix)
       THEN Raise("AttributeError") /\ log' = log
       ELSE /\ log' = Append(log, Access("isfile", Val(ofile)))
            /\ IF RefuseOverwrite(fs, ofile, force)
               THEN Raise("IOError")
               ELSE pc' = "parse" /\ err' = err
    /\ UNCHANGED <<ifile, ofile, prefix, force, py3, fs, fs0, names, data, row>>

(* ------------------------------- main ---------------------------------- *)
\* line 54
ParseNames ==
    /\ pc = "parse"
    /\ log' = Append(log, Access("parse", Val(ifile)))
    /\ IF Readable(fs, Val(ifile))
       THEN /\ names' = parse_rosetta_file(fs, Val(ifile))
            /\ pc' = "count"
            /\ err' = err
       ELSE Raise("IOError") /\ names' = names
    /\ UNCHANGED <<ifile, ofile, prefix, force, py3, fs, fs0, data, row>>

\* line 55
CountNames ==
    /\ pc = "count"
    /\ names' = AssignCount(names)
    /\ pc' = "new"
    /\ UNCHANGED <<ifile, ofile, prefix, force, py3, fs, fs0, err, data, row, log>>

\* line 56; on a table without rows apply(axis=1) hands back a frame, whose
\* assignment to one column pandas accepts or rejects depending on its version
NewNames ==
    /\ pc = "new"
    /\ \/ /\ names' = ApplyNewNames(names, prefix)
          /\ pc' = "read"
          /\ err' = err
       \/ /\ Len(names) = 0
          /\ Raise("ValueError")
          /\ names' = names
    /\ UNCHANGED <<ifile, ofile, prefix, force, py3, fs, fs0, data, row, log>>

ReadSource_after_opening_destination ==
    /\ pc = "read"
    /\ log' = Append(log, Access("read", Val(ifile)))
    /\ fs' = [fs EXCEPT ![Val(ofile)] = File(<<>>)]
    /\ LET path == Val(ifile)
           gz == endswith(path, GzExt)
       IN  IF ~isfile(fs, path) \/ (gz /\ ~IsGzip(fs[path].bytes))
           THEN Raise("IOError") /\ data' = data /\ row' = row
           ELSE IF gz /\ py3 /\ Len(Gunzip(fs[path].bytes)) > 0
           THEN Raise("TypeError") /\ data' = data /\ row' = row
           ELSE /\ data' = IF gz THEN Gunzip(fs[path].bytes) ELSE fs[path].bytes
                /\ row' = 1
                /\ pc' = "replace"
                /\ err' = err
    /\ UNCHANGED <<ifile, ofile, prefix, force, py3, fs0, names>>

\* lines 59-61
ReadSource ==
    /\ pc = "read"
    /\ log' = Append(log, Access("read", Val(ifile)))
    /\ LET path == Val(ifile)
           gz == endswith(path, GzExt)
       IN  IF ~isfile(fs, path) \/ (gz /\ ~IsGzip(fs[path].bytes))
           THEN Raise("IOError") /\ data' = data /\ row' = row
           ELSE IF gz /\ py3 /\ Len(Gunzip(fs[path].bytes)) > 0
           THEN Raise("TypeError") /\ data' = data /\ row' = row
           ELSE /\ data' = IF gz THEN Gunzip(fs[path].bytes) ELSE fs[path].bytes
                /\ row' = 1
                /\ pc' = "replace"
                /\ err' = err
    /\ UNCHANGED <<ifile, ofile, prefix, force, py3, fs, fs0, names>>

\* lines 63-64, one row of names.iterrows()
ReplaceRow ==
    /\ pc = "replace"
    /\ row <= Len(names)
    /\ data' = replace(data, names[row].description, names[row].new)
    /\ row' = row + 1
    /\ UNCHANGED <<ifile, ofile, prefix, force, py3, fs, fs0, pc, err, names, log>>

\* lines 67-68: the destination is created or truncated
OpenDestination ==
    /\ pc = "replace"
    /\ row > Len(names)
    /\ fs' = [fs EXCEPT ![Val(ofile)] = File(<<>>)]
    /\ log' = Append(log, Access("open_w", Val(ofile)))
    /\ pc' = "write"
    /\ UNCHANGED <<ifile, ofile, prefix, force, py3, fs0, err, names, data, row>>

\* lines 69-70
WriteDestination ==
    /\ pc = "write"
    /\ fs' = [fs EXCEPT ![Val(ofile)] = File(Encode(data, Val(ofile)))]
    /\ log' = Append(log, Access("write", Val(ofile)))
    /\ pc' = "done"
    /\ UNCHANGED <<ifile, ofile, prefix, force, py3, fs0, err, names, data, row>>

Next ==
    \/ get_options
    \/ ParseNames
    \/ CountNames
    \/ NewNames
    \/ ReadSource
    \/ ReplaceRow
    \/ OpenDestination
    \/ WriteDestination

Spec == Init /\ [][Next]_vars


(* ---------------- lines 55-56 on one row of a large table --------------- *)
\* the row at index i of a parsed table, for indices around the padding limit
Indices ==
    (0..MaxSmallIndex) \cup {122, 999, 9999}
        \cup ((PadLimit - 1 - MaxOver)..(PadLimit - 1 + MaxOver))

NamedPrefixes == Prefixes \ {None}

InitNames ==
    /\ ifile = Some(PathA)
    /\ ofile = Some(PathB)
    /\ prefix \in NamedPrefixes
    /\ force = FALSE
    /\ py3 = FALSE
    /\ fs = [p \in Paths |-> NoFile]
    /\ fs0 = fs
    /\ pc = "count"
    /\ err = "none"
    /\ names \in {<<>>} \cup
          {<<[index |-> i, description |-> IdA, count |-> 0, new |-> <<>>]>> :
              i \in Indices}
    /\ data = <<>>
    /\ row = 0
    /\ log = <<>>

NextNames == CountNames \/ NewNames

SpecNames == InitNames /\ [][NextNames]_vars

(* ======================== properties of the claims ====================== *)
DigitValue(c) == CHOOSE d \in 0..9 : Digits[d + 1] = c
IsDigit(c) == \E d \in 0..9 : Digits[d + 1] = c

RECURSIVE DecimalValue(_, _)
DecimalValue(t, k) ==
    IF k = 0 THEN 0 ELSE 10 * DecimalValue(t, k - 1) + DigitValue(t[k])

NewNameWellFormed(r, p) ==
    LET num == SubSeq(r.new, Len(p) + 2, Len(r.new))
    IN  /\ Len(r.new) >= Len(p) + 1 + PadWidth
        /\ SubSeq(r.new, 1, Len(p)) = p
        /\ r.new[Len(p) + 1] = "_"
        /\ \A k \in 1..Len(num) : IsDigit(num[k])
        /\ DecimalValue(num, Len(num)) = r.count
        /\ (r.count < PadLimit => Len(num) = PadWidth)
        /\ (r.count >= PadLimit => num[1] # "0")

NewNameExamples(r, p) ==
    /\ (r.count = 1 /\ p = <<"x">>) =>
          r.new = <<"x", "_", "0", "0", "0", "0", "1">>
    /\ (r.count = 123 /\ p = <<"x">>) =>
          r.new = <<"x", "_", "0", "0", "1", "2", "3">>
    /\ (r.count = PadLimit /\ p = <<"x">>) =>
          r.new = <<"x", "_", "1", "0", "0", "0", "0", "0">>

\* C3: the generated name is the prefix, "_" and the decimal text of the count
\* zero-padded to at least five digits (exactly five below 100000, the full
\* untruncated text from 100000 on), and the count of the row at 0-based
\* index i is i + 1.
C3_NewNameFormat ==
    /\ pc \in {"new", "read"} =>
          \A k \in 1..Len(names) : names[k].count = names[k].index + 1
    /\ pc = "read" =>
          \A k \in 1..Len(names) :
              /\ NewNameWellFormed(names[k], Val(prefix))
              /\ NewNameExamples(names[k], Val(prefix))

C3_Witness ==
    /\ pc = "read"
    /\ Len(names) = 1
    /\ names[1].index = PadLimit - 1
    /\ names[1].count = PadLimit
    /\ names[1].new = <<"x", "_", "1", "0", "0", "0", "0", "0">>

HasAccess(op) == \E k \in 1..Len(log) : log[k].op = op

\* C4: when the destination exists as a file and overwrite is not set, the
\* invocation ends in an error, no write is performed and every file,
\* the destination included, keeps its content.
C4_NoOverwriteWithoutFlag ==
    (/\ ~IsNone(ofile)
     /\ isfile(fs0, Val(ofile))
     /\ ~force
     /\ pc # "get_options") =>
        /\ pc = "raised"
        /\ err = IF IsNone(ifile) \/ IsNone(prefix) THEN "AttributeError" ELSE "IOError"
        /\ ~HasAccess("open_w")
        /\ ~HasAccess("write")
        /\ fs = fs0

C4_Witness ==
    /\ pc = "raised"
    /\ err = "IOError"
    /\ ~IsNone(ofile)
    /\ isfile(fs0, Val(ofile))
    /\ ~force
    /\ fs[Val(ofile)] = File(OldBytes)

\* C5: a missing source, a missing destination or a missing prefix, each on its
\* own and whatever the other arguments are, ends get_options with the
\* invalid-arguments error before any access to the file system.
C5_MissingArgumentsFailFirst ==
    (/\ IsNone(ifile) \/ IsNone(ofile) \/ IsNone(prefix)
     /\ pc # "get_options") =>
        /\ pc = "raised"
        /\ err = "AttributeError"
        /\ log = <<>>
        /\ fs = fs0

C5_Witness ==
    /\ pc = "raised"
    /\ err = "AttributeError"
    /\ ~IsNone(ifile)
    /\ ~IsNone(ofile)
    /\ IsNone(prefix)
    /\ isfile(fs0, Val(ofile))
    /\ log = <<>>

\* C6: a prefix given as the empty string is rejected like a missing one,
\* before any I/O: no run given the empty prefix completes, and no destination
\* is written with names of the form "_NNNNN".
C6_EmptyPrefixRejected ==
    (prefix = Some(<<>>) /\ pc = "done" /\ Val(ifile) # Val(ofile) /\ Len(names) > 0) =>
        /\ err = "AttributeError"
        /\ log = <<>>
        /\ \A k \in 1..Len(names) : names[k].new[1] # "_"

(* ------------------------ expected texts -------------------------------- *)
SourceText == FileText(fs0, Val(ifile))

\* a run on a destination other than its source, with a non-empty prefix
Separate == Val(ifile) # Val(ofile) /\ Val(prefix) # <<>>
WrittenText == FileText(fs, Val(ofile))

\* the rows' substitutions applied one after the other, in the order given
RECURSIVE RenameInOrder(_, _, _, _)
RenameInOrder(text, frame, order, k) ==
    IF k = 0 THEN text
    ELSE replace(RenameInOrder(text, frame, order, k - 1),
                 frame[order[k]].description, frame[order[k]].new)

PositionOrder(frame) == [k \in 1..Len(frame) |-> k]

Orders(frame) ==
    {o \in [1..Len(frame) -> 1..Len(frame)] :
        \A i, j \in 1..Len(frame) : i # j => o[i] # o[j]}

\* every occurrence of an identifier of the source replaced at once: the text is
\* scanned once and the replacements are never scanned again
RECURSIVE RenameAtOnce(_, _, _)
RenameAtOnce(text, frame, i) ==
    IF i > Len(text) THEN <<>>
    ELSE LET here == {k \in 1..Len(frame) : OccursAt(text, frame[k].description, i)}
         IN  IF here = {} THEN <<text[i]>> \o RenameAtOnce(text, frame, i + 1)
             ELSE LET k == CHOOSE k \in here :
                              \A j \in here :
                                  Len(frame[j].description) <= Len(frame[k].description)
                  IN  frame[k].new
                          \o RenameAtOnce(text, frame, i + Len(frame[k].description))

\* C1: after a successful run the destination text is the source text with
\* every occurrence of the i-th identifier turned into the i-th generated name
\* and nothing else altered.
C1_EveryOccurrenceRenamed ==
    (pc = "done" /\ Separate) => WrittenText = RenameAtOnce(SourceText, names, 1)

\* C2: the identifiers read back from the destination are, in order, the
\* generated names, one per record of the source.
C2_RoundTrip ==
    (pc = "done" /\ Separate) =>
        LET back == Descriptions(WrittenText)
        IN  /\ Len(back) = Len(Descriptions(SourceText))
            /\ \A k \in 1..Len(back) :
                  back[k] = new_names(k, Val(prefix))

Passed == pc \notin {"get_options"} /\ ~(pc = "raised" /\ ~HasAccess("parse"))

\* C7: a run that passed get_options changes no file but the destination,
\* which it writes once, and leaves the content of the source as it was.
C7_OnlyDestinationWritten ==
    (Passed /\ pc \in {"done", "raised"} /\ Val(prefix) # <<>>) =>
        /\ \A p \in Paths : p # Val(ofile) => fs[p] = fs0[p]
        /\ fs[Val(ifile)] = fs0[Val(ifile)]
        /\ pc = "done" =>
              Cardinality({k \in 1..Len(log) : log[k].op = "write"}) = 1

FirstAccess(op) == CHOOSE k \in 1..Len(log) : log[k].op = op

\* C8: the destination is opened only after the source has been parsed and read
\* and every substitution applied in memory; a run that fails while parsing or
\* reading leaves every file, a pre-existing destination included, untouched.
C8_DestinationOpenedLast ==
    /\ HasAccess("open_w") =>
          /\ HasAccess("parse") /\ HasAccess("read")
          /\ FirstAccess("parse") < FirstAccess("open_w")
          /\ FirstAccess("read") < FirstAccess("open_w")
          /\ row = Len(names) + 1
          /\ data = RenameInOrder(SourceText, names, PositionOrder(names), Len(names))
    /\ ~HasAccess("open_w") => fs = fs0
    /\ pc = "raised" => ~HasAccess("open_w") /\ fs = fs0

C8_Witness ==
    /\ pc = "raised"
    /\ err = "TypeError"
    /\ log[Len(log)].op = "read"
    /\ isfile(fs0, Val(ofile))
    /\ Val(ofile) # Val(ifile)
    /\ fs[Val(ofile)] = File(OldBytes)

\* C9: the destination is compressed exactly when its path ends in ".gz", the
\* source is decompressed exactly when its path ends in ".gz", and whatever the
\* combination the run writes the text the plain-to-plain run writes.
C9_CompressionIndependence ==
    (/\ Passed
     /\ pc \in {"done", "raised"}
     /\ Separate
     /\ Readable(fs0, Val(ifile))
     /\ Len(Descriptions(SourceText)) > 0) =>
        /\ pc = "done"
        /\ IsGzip(fs[Val(ofile)].bytes) <=> endswith(Val(ofile), GzExt)
        /\ WrittenText =
              RenameInOrder(SourceText, names, PositionOrder(names), Len(names))

\* C10: the substitutions are applied one row at a time in position order,
\* each on the text the previous one left; the generated names of distinct
\* positions differ; and the final text is the same in whatever order the
\* rows' substitutions are applied.
C10_SequentialOrderFree ==
    /\ pc = "replace" =>
          data = RenameInOrder(SourceText, names, PositionOrder(names), row - 1)
    /\ pc \in {"replace", "write", "done"} =>
          \A i, j \in 1..Len(names) : i # j => names[i].new # names[j].new
    /\ (pc = "done" /\ Separate) =>
          \A o \in Orders(names) :
              WrittenText = RenameInOrder(SourceText, names, o, Len(names))

(* ------------- lines 63-70 on a table the parser handed back ------------ *)
\* a parsed table with the given descriptions, whatever the text they came from
TableOf(ids) ==
    [k \in 1..Len(ids) |->
        [index |-> k - 1, description |-> ids[k], count |-> 0, new |-> <<>>]]

\* the state after line 61: the table named, the source read, nothing replaced yet
InitReplace ==
    /\ ifile = Some(PathA)
    /\ ofile = Some(PathB)
    /\ prefix \in NamedPrefixes
    /\ force = FALSE
    /\ py3 = FALSE
    /\ \E ids \in RecordLists :
          fs = [p \in Paths |->
                  IF p = PathA THEN File(SilentText(ids, 1)) ELSE NoFile]
    /\ fs0 = fs
    /\ pc = "replace"
    /\ err = "none"
    /\ \E ids \in RecordLists : names = ApplyNewNames(AssignCount(TableOf(ids)), prefix)
    /\ data = fs[PathA].bytes
    /\ row = 1
    /\ log = <<Access("isfile", PathB), Access("parse", PathA), Access("read", PathA)>>

NextReplace == ReplaceRow \/ OpenDestination \/ WriteDestination

SpecReplace == InitReplace /\ [][NextReplace]_vars

AbsentFromSource(k) == ~Contains(SourceText, names[k].description)

\* the positions, in order, of the rows whose identifier occurs in the source
RECURSIVE PresentOrder(_)
PresentOrder(k) ==
    IF k = 0 THEN <<>>
    ELSE IF AbsentFromSource(k) THEN PresentOrder(k - 1)
    ELSE Append(PresentOrder(k - 1), k)

\* C11: the substitution step of a parsed identifier that does not occur in the
\* raw source text leaves the in-memory text as it was, raises no error and
\* inserts its generated name nowhere, and the substitutions of the other
\* records are applied all the same.
C11_AbsentIdentifierIsNoOp ==
    /\ (pc = "replace" /\ row > 1 /\ AbsentFromSource(row - 1)) =>
          data = RenameInOrder(SourceText, names, PositionOrder(names), row - 2)
    /\ pc # "raised"
    /\ pc = "done" =>
          /\ \A k \in 1..Len(names) :
                (AbsentFromSource(k) /\ ~Contains(SourceText, names[k].new)) =>
                    ~Contains(WrittenText, names[k].new)
          /\ LET o == PresentOrder(Len(names))
             IN  WrittenText = RenameInOrder(SourceText, names, o, Len(o))

====
